---- MODULE Spec2Model ----
(***************************************************************************)
(* Model of internal/app/telescopes/api/routes.go: the gin router that     *)
(* RouteHandler.EnableAuth and RouteHandler.ConfigureRoutes assemble, and  *)
(* the per-request execution of the handler chains it registers.           *)
(***************************************************************************)
EXTENDS Naturals, Sequences, FiniteSets

VARIABLES
    env,        \* value of TELESCOPES_BASEPATH ("" when unset or empty)
    Handlers,   \* router.RouterGroup.Handlers: the engine-level middleware list
    trees,      \* the routes registered on the gin engine, with their handler chains
    c           \* c[s]: the gin.Context serving slot s

vars == <<env, Handlers, trees, c>>

(* ------------------------------ bounds --------------------------------- *)

\* number of gin.Context slots the server hands requests to
NumSlots == 2

Slots == 1..NumSlots

(* --------------------------- program constants ------------------------- *)

providerParam == "provider"
regionParam == "region"

StatusOK == 200
StatusBadRequest == 400
StatusUnauthorized == 401
StatusInternalServerError == 500

None == "<none>"

\* a nil pointer or a nil error
Nil == [nil |-> TRUE]

\* an error value with its text
Error(text) == [Error |-> text]
Absent == "<absent>"

\* values TELESCOPES_BASEPATH takes in the runs explored
EnvValues == {"", "/telescopes"}

(* ------------------------- external collaborators ---------------------- *)

\* the "provider" validation tag: membership in the known-provider set
KnownProviders == {"amazon", "google"}

\* the provider-specific region catalog
RegionsOf(provider) ==
    IF provider = "amazon" THEN {"eu-west-1"}
    ELSE IF provider = "google" THEN {"europe-west1"}
    ELSE {}

ProviderValues == KnownProviders \cup {"bogus"}
RegionValues == {"eu-west-1", "europe-west1", "nowhere"}
Credentials == {"none", "forged", "valid"}
Origins == {"", "http://elsewhere"}
Workloads == {"workload", "workloadOutOfRange"}

\* request bodies: a document that does not parse, or a JSON object with a
\* workload description and, possibly, keys named Provider and Region
Bodies ==
    {[syntax |-> FALSE, Provider |-> Absent, Region |-> Absent, W |-> "workload"]}
    \cup [syntax : {TRUE}, Provider : {Absent, "google"},
          Region : {Absent, "europe-west1"}, W : Workloads]

DecodeError == "invalid character"
FieldError == "Field validation failed"
EngineErrors == {"no feasible layout"}

(* ------------------------------ gin router ----------------------------- *)

\* cors.Config built by getCorsConfig
getCorsConfig ==
    [AllowAllOrigins |-> TRUE,
     AllowOrigins |-> {},
     AllowMethods |-> {"PUT", "DELETE", "GET", "POST", "OPTIONS"},
     AllowHeaders |-> {"Origin", "Authorization", "Content-Type"},
     ExposeHeaders |-> {"Content-Length"},
     AllowCredentials |-> TRUE,
     MaxAge |-> 12]

\* group.Use(middleware): appends to the group's own handler list
Use(group, middleware) ==
    [group EXCEPT !.Handlers = Append(@, middleware)]

\* group.Group(relativePath): the new group copies the parent's handlers as they are now
Group(group, relativePath) ==
    [basePath |-> Append(group.basePath, relativePath), Handlers |-> group.Handlers]

\* group.GET / group.POST: the route's chain is the group's handlers as they are
\* now, followed by the handler
Handle(group, method, relativePath, handler) ==
    [method |-> method,
     path |-> Append(group.basePath, relativePath),
     handlers |-> Append(group.Handlers, handler)]

\* variant: the environment is not looked at
BasePath_envIgnored(e) == "/"

\* the base path ConfigureRoutes chooses
BasePath(e) == IF e # "" THEN e ELSE "/"

\* variants of the /api/v1 chain: a validator left out, the two exchanged
V1Middlewares_noProvider == <<"ValidateRegionData">>
V1Middlewares_noRegion == <<"ValidatePathParam">>
V1Middlewares_swapped == <<"ValidateRegionData", "ValidatePathParam">>

\* the middlewares ConfigureRoutes attaches to the /api/v1 group, in order
V1Middlewares == <<"ValidatePathParam", "ValidateRegionData">>

RECURSIVE UseAll(_, _)
UseAll(group, mws) ==
    IF mws = <<>> THEN group
    ELSE UseAll(Use(group, Head(mws)), Tail(mws))

AuthEnabled == \E i \in 1..Len(Handlers) : Handlers[i] = "JWTAuth"

Idle == [pc |-> "idle"]

AllIdle == \A s \in Slots : c[s].pc = "idle"

Init ==
    /\ env \in EnvValues
    /\ Handlers = <<>>
    /\ trees = {}
    /\ c = [s \in Slots |-> Idle]

\* RouteHandler.EnableAuth
EnableAuth ==
    /\ ~AuthEnabled
    /\ AllIdle
    /\ Handlers' = Append(Handlers, "JWTAuth")
    /\ UNCHANGED <<env, trees, c>>

\* what ConfigureRoutes does to a router whose engine-level middlewares are
\* engineHandlers, with TELESCOPES_BASEPATH set to e
Configure(engineHandlers, e) ==
    LET router == Use([basePath |-> <<>>, Handlers |-> engineHandlers], "cors")
        base == Group(router, BasePath(e))
        v1 == UseAll(Group(base, "/api/v1"), V1Middlewares)
        recGroup == Group(v1, "/recommender")
    IN [Handlers |-> router.Handlers,
        trees |-> {Handle(base, "GET", "/status", "signalStatus"),
                   Handle(recGroup, "POST", "/:provider/:region/cluster/",
                          "recommendClusterSetup")}]

\* RouteHandler.ConfigureRoutes
ConfigureRoutes ==
    /\ trees = {}
    /\ LET r == Configure(Handlers, env)
       IN /\ Handlers' = r.Handlers
          /\ trees' = r.trees
    /\ UNCHANGED <<env, c>>

(* ---------------------------- gin.Context ------------------------------ *)

\* c.Param(key)
Param(ctx, key) == ctx.Params[key]

\* c.Abort(): no later handler of the chain runs
Abort(ctx) == [ctx EXCEPT !.aborted = TRUE]

\* the status line is written once: a later code does not replace it
WriteHeader(ctx, code) == [ctx EXCEPT !.header = IF @ = 0 THEN code ELSE @]

\* c.JSON(code, obj): sets the status and renders obj into the response body
JSON(ctx, code, obj) == [WriteHeader(ctx, code) EXCEPT !.out = Append(@, obj)]

\* history of the stages that ran for the request, with their verdict
Ran(ctx, stage, ok) == [ctx EXCEPT !.trace = Append(@, [stage |-> stage, ok |-> ok])]

\* a panic in a handler: the chain is abandoned and this layer writes nothing more
Panic(ctx) == [ctx EXCEPT !.panicked = TRUE, !.aborted = TRUE]

\* the handler returns: gin runs the next handler of the chain unless aborted
Return(ctx) ==
    IF ctx.aborted \/ ctx.index = Len(ctx.handlers)
    THEN [ctx EXCEPT !.pc = "done"]
    ELSE [ctx EXCEPT !.index = @ + 1]

Current(s) ==
    IF c[s].pc = "running" THEN c[s].handlers[c[s].index] ELSE None

(* ----------------------------- middlewares ----------------------------- *)

validateOrigin(config, origin) ==
    config.AllowAllOrigins \/ origin \in config.AllowOrigins

\* cors.New(getCorsConfig()) applied to a GET or POST request
cors(ctx) ==
    IF ctx.origin = "" THEN Ran(ctx, "cors", TRUE)
    ELSE IF ~validateOrigin(getCorsConfig, ctx.origin)
         THEN Ran(WriteHeader(Abort(ctx), 403), "cors", FALSE)
         ELSE Ran(ctx, "cors", TRUE)

\* auth.JWTAuth(...): 401 unless the bearer credential verifies
JWTAuth(ctx) ==
    IF ctx.cred = "valid" THEN Ran(ctx, "JWTAuth", TRUE)
    ELSE Ran(JSON(Abort(ctx), StatusUnauthorized, [message |-> "Invalid token"]),
             "JWTAuth", FALSE)

\* gin.H of a validation failure
BadParams(cause) ==
    [code |-> "bad_params", message |-> "validation failed", cause |-> cause]

\* ValidatePathParam(providerParam, v, "provider")
ValidatePathParam(ctx) ==
    IF Param(ctx, providerParam) \in KnownProviders
    THEN Ran(ctx, "ValidatePathParam", TRUE)
    ELSE Ran(JSON(Abort(ctx), StatusBadRequest, BadParams("invalid provider parameter")),
             "ValidatePathParam", FALSE)

\* isValidRegion(provider, region) -> bool, err
isValidRegion(ctx) ==
    [valid |-> Param(ctx, regionParam) \in RegionsOf(Param(ctx, providerParam)),
     err |-> IF ctx.lookupErr THEN Error("region lookup failed") ELSE Nil]

\* ValidateRegionData(v)
ValidateRegionData(ctx) ==
    LET r == isValidRegion(ctx) IN
    IF r.err = Nil /\ r.valid
    THEN Ran(ctx, "ValidateRegionData", TRUE)
    ELSE Ran(JSON(Abort(ctx), StatusBadRequest,
                  BadParams(IF r.err # Nil THEN r.err.Error ELSE "invalid region in path")),
             "ValidateRegionData", FALSE)

(* ------------------------------ handlers ------------------------------- *)

\* RouteHandler.signalStatus
signalStatus(ctx) == Ran(JSON(ctx, StatusOK, [json |-> "ok"]), "signalStatus", TRUE)

\* RequestWrapper{Provider: provider, Region: region}
RequestWrapper(provider, region) ==
    [ClusterRecommendationReq |-> "zero", Provider |-> provider, Region |-> region]

\* encoding/json into a RequestWrapper: every key of the document that names an
\* exported field of the struct is stored into that field
Decode(obj, body) ==
    [ClusterRecommendationReq |-> body.W,
     Provider |-> IF body.Provider # Absent THEN body.Provider ELSE obj.Provider,
     Region |-> IF body.Region # Absent THEN body.Region ELSE obj.Region]

\* the declarative field rules of the workload description
Validate(obj) ==
    IF obj.ClusterRecommendationReq = "workload" THEN Nil ELSE Error(FieldError)

\* c.BindJSON(&req): decode, then validate; on error gin aborts with status 400
BindJSON(ctx, obj) ==
    IF ~ctx.body.syntax
    THEN [c |-> WriteHeader(Abort(ctx), StatusBadRequest), obj |-> obj, err |-> Error(DecodeError)]
    ELSE LET o == Decode(obj, ctx.body)
             e == Validate(o)
         IN [c |-> IF e # Nil THEN WriteHeader(Abort(ctx), StatusBadRequest) ELSE ctx,
             obj |-> o, err |-> e]

\* what the engine returns: a result or an error
Outcomes == {"result"} \cup EngineErrors

\* what the signature of RecommendCluster lets it return: also nil with a nil error
OutcomesOfSignature == Outcomes \cup {"nil"}

\* r.engine.RecommendCluster(provider, region, req)
RecommendCluster(provider, region, req, outcome) ==
    IF outcome = "result"
    THEN [response |-> [Provider |-> provider, Region |-> region, NodePools |-> req],
          err |-> Nil]
    ELSE IF outcome = "nil"
    THEN [response |-> Nil, err |-> Nil]
    ELSE [response |-> Nil, err |-> Error(outcome)]

\* fmt.Sprintf("%s", err)
Sprintf(err) == err.Error

\* variant: the cause is a fixed text, not the bind error's
BindErrorResponse_fixedCause(ctx, err) ==
    JSON(ctx, StatusBadRequest,
         [code |-> "bad_params", message |-> "validation failed",
          cause |-> "validation failed"])

\* variant: nothing is written for a bind error
BindErrorResponse_none(ctx, err) == ctx

\* the response recommendClusterSetup writes for a bind error
BindErrorResponse(ctx, err) ==
    JSON(ctx, StatusBadRequest,
         [code |-> "bad_params", message |-> "validation failed", cause |-> err.Error])

\* variant: the engine's error is not looked at
EngineResponse_errIgnored(ctx, ret) == JSON(ctx, StatusOK, ret.response)

\* the response recommendClusterSetup writes for the engine's return
EngineResponse(ctx, ret) ==
    IF ret.err # Nil
    THEN JSON(ctx, StatusInternalServerError,
              [status |-> StatusInternalServerError, message |-> Sprintf(ret.err)])
    ELSE IF ret.response = Nil
    THEN Panic(ctx)
    ELSE JSON(ctx, StatusOK, ret.response)

\* variant: the engine is called a second time when it returned an error
Dispatch_retry(ctx, provider, region, req, outcome) ==
    LET ret == RecommendCluster(provider, region, req.ClusterRecommendationReq, outcome)
        call == <<provider, region, req.ClusterRecommendationReq>>
        called == [ctx EXCEPT !.calls = IF ret.err # Nil THEN @ \o <<call, call>>
                                        ELSE Append(@, call),
                              !.ret = ret]
    IN EngineResponse(Ran(called, "RecommendCluster", ret.err = Nil), ret)

\* variant: the engine gets the provider and region of the bound wrapper
Dispatch_wrapperFields(ctx, provider, region, req, outcome) ==
    LET ret == RecommendCluster(req.Provider, req.Region,
                                req.ClusterRecommendationReq, outcome)
        called == [ctx EXCEPT !.calls = Append(@, <<req.Provider, req.Region,
                                                    req.ClusterRecommendationReq>>),
                              !.ret = ret]
    IN EngineResponse(Ran(called, "RecommendCluster", ret.err = Nil), ret)

\* the call of the engine and the mapping of its return
Dispatch(ctx, provider, region, req, outcome) ==
    LET ret == RecommendCluster(provider, region, req.ClusterRecommendationReq, outcome)
        called == [ctx EXCEPT !.calls = Append(@, <<provider, region,
                                                    req.ClusterRecommendationReq>>),
                              !.ret = ret]
    IN EngineResponse(Ran(called, "RecommendCluster", ret.err = Nil), ret)

\* variant: no return after the bind error's response
recommendClusterSetup_noReturn(ctx, outcome) ==
    LET provider == Param(ctx, providerParam)
        region == Param(ctx, regionParam)
        req == RequestWrapper(provider, region)
        b == BindJSON(ctx, req)
        bound == [Ran(b.c, "BindJSON", b.err = Nil) EXCEPT !.req = b.obj]
    IN Dispatch(IF b.err # Nil THEN BindErrorResponse(bound, b.err) ELSE bound,
                provider, region, b.obj, outcome)

\* RouteHandler.recommendClusterSetup
recommendClusterSetup(ctx, outcome) ==
    LET provider == Param(ctx, providerParam)
        region == Param(ctx, regionParam)
        req == RequestWrapper(provider, region)
        b == BindJSON(ctx, req)
        bound == [Ran(b.c, "BindJSON", b.err = Nil) EXCEPT !.req = b.obj]
    IN IF b.err # Nil
       THEN BindErrorResponse(bound, b.err)
       ELSE Dispatch(bound, provider, region, b.obj, outcome)

(* --------------------------- a chain, run whole ------------------------ *)

\* the handler named h, applied to the context
Apply(h, ctx, outcome) ==
    CASE h = "cors" -> cors(ctx)
      [] h = "JWTAuth" -> JWTAuth(ctx)
      [] h = "ValidatePathParam" -> ValidatePathParam(ctx)
      [] h = "ValidateRegionData" -> ValidateRegionData(ctx)
      [] h = "signalStatus" -> signalStatus(ctx)
      [] h = "recommendClusterSetup" -> recommendClusterSetup(ctx, outcome)

\* gin runs the handlers of the chain one after the other until the last one
\* returned or one aborted
RECURSIVE RunChain(_, _)
RunChain(ctx, outcome) ==
    IF ctx.pc = "done" THEN ctx
    ELSE RunChain(Return(Apply(ctx.handlers[ctx.index], ctx, outcome)), outcome)

(* ------------------------------ requests ------------------------------- *)

NewContext(route, cred, origin, params, lookupErr, body) ==
    [pc |-> "running", method |-> route.method, path |-> route.path,
     handlers |-> route.handlers, index |-> 1, aborted |-> FALSE,
     cred |-> cred, origin |-> origin, Params |-> params,
     lookupErr |-> lookupErr, body |-> body,
     header |-> 0, out |-> <<>>, trace |-> <<>>,
     req |-> Nil, calls |-> <<>>, ret |-> Nil, panicked |-> FALSE]

NoParams == [provider |-> "", region |-> ""]
NoBody == [syntax |-> FALSE, Provider |-> Absent, Region |-> Absent, W |-> "workload"]

\* the engine matches an inbound request to a registered route and starts its chain
Receive(s) ==
    /\ c[s].pc = "idle"
    /\ \E route \in trees, cred \in Credentials, origin \in Origins :
         IF route.method = "GET"
         THEN c' = [c EXCEPT ![s] = NewContext(route, cred, origin, NoParams, FALSE, NoBody)]
         ELSE \E provider \in ProviderValues, region \in RegionValues,
                 lookupErr \in BOOLEAN, body \in Bodies :
                c' = [c EXCEPT ![s] = NewContext(route, cred, origin,
                          [provider |-> provider, region |-> region], lookupErr, body)]
    /\ UNCHANGED <<env, Handlers, trees>>

\* one request at a time
Accept(s) == AllIdle /\ Receive(s)

RunCors(s) ==
    /\ Current(s) = "cors"
    /\ c' = [c EXCEPT ![s] = Return(cors(c[s]))]
    /\ UNCHANGED <<env, Handlers, trees>>

\* variant: the middleware is built with a key that verifies no credential
RunJWTAuth_wrongKey(s) ==
    /\ Current(s) = "JWTAuth"
    /\ c' = [c EXCEPT ![s] = [Return(JWTAuth([c[s] EXCEPT !.cred = "forged"]))
                                EXCEPT !.cred = c[s].cred]]
    /\ UNCHANGED <<env, Handlers, trees>>

RunJWTAuth(s) ==
    /\ Current(s) = "JWTAuth"
    /\ c' = [c EXCEPT ![s] = Return(JWTAuth(c[s]))]
    /\ UNCHANGED <<env, Handlers, trees>>

RunValidatePathParam(s) ==
    /\ Current(s) = "ValidatePathParam"
    /\ c' = [c EXCEPT ![s] = Return(ValidatePathParam(c[s]))]
    /\ UNCHANGED <<env, Handlers, trees>>

RunValidateRegionData(s) ==
    /\ Current(s) = "ValidateRegionData"
    /\ c' = [c EXCEPT ![s] = Return(ValidateRegionData(c[s]))]
    /\ UNCHANGED <<env, Handlers, trees>>

RunSignalStatus(s) ==
    /\ Current(s) = "signalStatus"
    /\ c' = [c EXCEPT ![s] = Return(signalStatus(c[s]))]
    /\ UNCHANGED <<env, Handlers, trees>>

\* variant: the wrapper is built from a field shared by the requests in flight
RunRecommendClusterSetup_shared(s) ==
    /\ Current(s) = "recommendClusterSetup"
    /\ \E outcome \in Outcomes :
         LET others == {o \in Slots : o # s /\ c[o].pc = "running" /\ c[o].method = "POST"}
             from == IF others = {} THEN s ELSE CHOOSE o \in others : TRUE
             ran == recommendClusterSetup([c[s] EXCEPT !.Params = c[from].Params], outcome)
         IN c' = [c EXCEPT ![s] = Return([ran EXCEPT !.Params = c[s].Params])]
    /\ UNCHANGED <<env, Handlers, trees>>

RunRecommendClusterSetup(s) ==
    /\ Current(s) = "recommendClusterSetup"
    /\ \E outcome \in Outcomes :
         c' = [c EXCEPT ![s] = Return(recommendClusterSetup(c[s], outcome))]
    /\ UNCHANGED <<env, Handlers, trees>>

\* the response is sent and the context goes back to the pool
Release(s) ==
    /\ c[s].pc = "done"
    /\ c' = [c EXCEPT ![s] = Idle]
    /\ UNCHANGED <<env, Handlers, trees>>

Next ==
    \/ EnableAuth
    \/ ConfigureRoutes
    \/ \E s \in Slots :
         \/ Accept(s)
         \/ RunCors(s)
         \/ RunJWTAuth(s)
         \/ RunValidatePathParam(s)
         \/ RunValidateRegionData(s)
         \/ RunSignalStatus(s)
         \/ RunRecommendClusterSetup(s)
         \/ Release(s)

Spec == Init /\ [][Next]_vars

(* ---------------- the engine returning all its signature allows -------- *)

RunRecommendClusterSetupAnyReturn(s) ==
    /\ Current(s) = "recommendClusterSetup"
    /\ \E outcome \in OutcomesOfSignature :
         c' = [c EXCEPT ![s] = Return(recommendClusterSetup(c[s], outcome))]
    /\ UNCHANGED <<env, Handlers, trees>>

NextAnyReturn ==
    \/ EnableAuth
    \/ ConfigureRoutes
    \/ \E s \in Slots :
         \/ Accept(s)
         \/ RunCors(s)
         \/ RunJWTAuth(s)
         \/ RunValidatePathParam(s)
         \/ RunValidateRegionData(s)
         \/ RunSignalStatus(s)
         \/ RunRecommendClusterSetupAnyReturn(s)
         \/ Release(s)

SpecAnyReturn == Init /\ [][NextAnyReturn]_vars

(* ------------------------- requests served at once --------------------- *)

\* requests of the concurrent runs: both routes, with and without credential,
\* a known and an unknown provider, a body that binds and one that does not
ConcurrentBodies ==
    {b \in Bodies : b.Provider = Absent /\ b.Region = Absent /\ b.W = "workload"}

ReceiveConcurrent(s) ==
    /\ c[s].pc = "idle"
    /\ \E route \in trees, cred \in {"none", "valid"} :
         IF route.method = "GET"
         THEN c' = [c EXCEPT ![s] = NewContext(route, cred, "", NoParams, FALSE, NoBody)]
         ELSE \E provider \in {"amazon", "bogus"}, body \in ConcurrentBodies :
                c' = [c EXCEPT ![s] = NewContext(route, cred, "",
                          [provider |-> provider, region |-> "eu-west-1"], FALSE, body)]
    /\ UNCHANGED <<env, Handlers, trees>>

InitConcurrent ==
    /\ env = ""
    /\ Handlers = <<>>
    /\ trees = {}
    /\ c = [s \in Slots |-> Idle]

NextConcurrent ==
    \/ EnableAuth
    \/ ConfigureRoutes
    \/ \E s \in Slots :
         \/ ReceiveConcurrent(s)
         \/ RunCors(s)
         \/ RunJWTAuth(s)
         \/ RunValidatePathParam(s)
         \/ RunValidateRegionData(s)
         \/ RunSignalStatus(s)
         \/ RunRecommendClusterSetup(s)
         \/ Release(s)

SpecConcurrent == InitConcurrent /\ [][NextConcurrent]_vars

(* ------------------- every started handler chain goes on --------------- *)

\* gin runs a request's chain to its end: each handler that is due does run
Fairness ==
    \A s \in Slots :
        /\ WF_vars(RunCors(s))
        /\ WF_vars(RunJWTAuth(s))
        /\ WF_vars(RunValidatePathParam(s))
        /\ WF_vars(RunValidateRegionData(s))
        /\ WF_vars(RunSignalStatus(s))
        /\ WF_vars(RunRecommendClusterSetup(s))

LiveSpec == Init /\ [][Next]_vars /\ Fairness

(* ------------------------- reading a request --------------------------- *)

Business(s) == c[s].pc # "idle" /\ c[s].method = "POST"
Liveness(s) == c[s].pc # "idle" /\ c[s].method = "GET"
Responded(s) == c[s].pc = "done"

Stages(s) == {c[s].trace[i].stage : i \in 1..Len(c[s].trace)}
Last(s) == c[s].trace[Len(c[s].trace)]
InChain(s, h) == \E i \in 1..Len(c[s].handlers) : c[s].handlers[i] = h

Validators == {"ValidatePathParam", "ValidateRegionData"}
AfterProvider == {"ValidateRegionData", "BindJSON", "RecommendCluster"}
AfterRegion == {"BindJSON", "RecommendCluster"}

\* what each guard decides, read off the request alone
AuthRejects(s) == InChain(s, "JWTAuth") /\ c[s].cred # "valid"
ProviderUnknown(s) == c[s].Params.provider \notin KnownProviders
RegionRejected(s) ==
    c[s].lookupErr \/ c[s].Params.region \notin RegionsOf(c[s].Params.provider)
BindFails(s) == ~c[s].body.syntax \/ c[s].body.W # "workload"

(* ------------------------------- C1 ------------------------------------ *)

\* C1: once EnableAuth has been called (before or after ConfigureRoutes), a
\* request to the business route without a credential is answered 401 and no
\* provider validator, region validator, binder or engine call runs for it.
C1_NoCredentialIs401 ==
    \A s \in Slots :
        (Business(s) /\ AuthEnabled /\ c[s].cred = "none") =>
            /\ Stages(s) \cap (Validators \cup AfterRegion) = {}
            /\ Responded(s) => c[s].header = StatusUnauthorized

(* ------------------------------- C2 ------------------------------------ *)

\* C2: every GET of {basePath}/status is answered 200 with body "ok", for every
\* authentication configuration and every credential, and the provider and
\* region validators do not run for it.
C2_StatusAlwaysOk ==
    \A s \in Slots :
        Liveness(s) =>
            /\ Stages(s) \cap Validators = {}
            /\ Responded(s) =>
                 c[s].header = StatusOK /\ c[s].out = <<[json |-> "ok"]>>

(* ------------------------------- C3 ------------------------------------ *)

\* C3 as stated: an unknown provider on the business route is always answered
\* 400 bad_params, and nothing after the provider validator runs.
C3_Original ==
    \A s \in Slots :
        (Business(s) /\ ProviderUnknown(s)) =>
            /\ Stages(s) \cap AfterProvider = {}
            /\ c[s].calls = <<>>
            /\ Responded(s) =>
                 /\ c[s].header = StatusBadRequest
                 /\ Len(c[s].out) = 1
                 /\ c[s].out[1].code = "bad_params"

\* C3, amended: for a request to the business route with an unknown provider
\* the region validator, the binder, recommendClusterSetup and the engine never
\* run; the response is 400 with code "bad_params", unless the auth middleware
\* is in the route's chain and rejects the credential first, and then it is 401.
C3_UnknownProvider ==
    \A s \in Slots :
        (Business(s) /\ ProviderUnknown(s)) =>
            /\ Stages(s) \cap AfterProvider = {}
            /\ c[s].calls = <<>>
            /\ Responded(s) =>
                 IF AuthRejects(s)
                 THEN c[s].header = StatusUnauthorized
                 ELSE /\ c[s].header = StatusBadRequest
                      /\ Len(c[s].out) = 1
                      /\ c[s].out[1].code = "bad_params"

C3_Witness ==
    \E s \in Slots :
        /\ Business(s) /\ ProviderUnknown(s) /\ Responded(s)
        /\ Last(s) = [stage |-> "ValidatePathParam", ok |-> FALSE]
        /\ c[s].header = StatusBadRequest

(* ------------------------------- C4 ------------------------------------ *)

\* C4 as stated: a region that is unknown for the provider, or whose lookup
\* fails, is always answered 400, and the binder and the engine do not run.
C4_Original ==
    \A s \in Slots :
        (Business(s) /\ RegionRejected(s)) =>
            /\ Stages(s) \cap AfterRegion = {}
            /\ c[s].req = Nil
            /\ Responded(s) => c[s].header = StatusBadRequest

\* C4, amended: the region validator fails closed: when the region is unknown
\* for the provider or the lookup returns an error, the binder and the engine
\* never run, and the response is 400, unless the auth middleware is in the
\* route's chain and rejects the credential first, and then it is 401; a
\* request reaches recommendClusterSetup only after the region validator
\* accepted its region.
C4_RegionFailsClosed ==
    \A s \in Slots :
        Business(s) =>
            /\ RegionRejected(s) =>
                 /\ Stages(s) \cap AfterRegion = {}
                 /\ c[s].req = Nil
                 /\ c[s].calls = <<>>
                 /\ Responded(s) =>
                      c[s].header = IF AuthRejects(s) THEN StatusUnauthorized
                                    ELSE StatusBadRequest
            /\ "BindJSON" \in Stages(s) =>
                 \E i \in 1..Len(c[s].trace) :
                     c[s].trace[i] = [stage |-> "ValidateRegionData", ok |-> TRUE]

C4_Witness ==
    \E s \in Slots :
        /\ Business(s) /\ Responded(s)
        /\ ~ProviderUnknown(s) /\ c[s].lookupErr
        /\ Last(s) = [stage |-> "ValidateRegionData", ok |-> FALSE]
        /\ c[s].header = StatusBadRequest

(* ------------------------------- C5 ------------------------------------ *)

\* C5: when the body does not decode or fails field validation,
\* recommendClusterSetup answers 400 with code "bad_params", message
\* "validation failed" and the bind error's text as cause, and does not call
\* the engine.
C5_BindFailure ==
    \A s \in Slots :
        (Business(s) /\ "BindJSON" \in Stages(s) /\ BindFails(s)) =>
            /\ Responded(s)
            /\ c[s].header = StatusBadRequest
            /\ c[s].out = <<[code |-> "bad_params", message |-> "validation failed",
                             cause |-> IF c[s].body.syntax THEN FieldError
                                       ELSE DecodeError]>>
            /\ c[s].calls = <<>>
            /\ "RecommendCluster" \notin Stages(s)

C5_Witness ==
    \E s \in Slots :
        /\ Business(s) /\ Responded(s) /\ ~c[s].body.syntax
        /\ Last(s) = [stage |-> "BindJSON", ok |-> FALSE]
        /\ c[s].out[1].cause = DecodeError

(* ------------------------------- C6 ------------------------------------ *)

PassesGuards(s) ==
    ~AuthRejects(s) /\ ~ProviderUnknown(s) /\ ~RegionRejected(s) /\ ~BindFails(s)

\* C6: a request that passes every guard and binds is dispatched once; if the
\* engine returns a result the response is 200 with that result as body, if it
\* returns an error the response is 500 with body {status: 500, message: the
\* error's text}; a dispatched request gets no other status.
C6_EngineMapping ==
    \A s \in Slots :
        /\ (Business(s) /\ Responded(s) /\ PassesGuards(s)) => Len(c[s].calls) = 1
        /\ (Business(s) /\ Responded(s) /\ c[s].calls # <<>>) =>
             /\ c[s].header \in {StatusOK, StatusInternalServerError}
             /\ c[s].ret.err = Nil =>
                  c[s].header = StatusOK /\ c[s].out = <<c[s].ret.response>>
             /\ c[s].ret.err # Nil =>
                  /\ c[s].header = StatusInternalServerError
                  /\ c[s].out = <<[status |-> StatusInternalServerError,
                                   message |-> c[s].ret.err.Error]>>

C6_Witness ==
    \E s \in Slots :
        /\ Business(s) /\ Responded(s) /\ PassesGuards(s)
        /\ c[s].ret.err = Error("no feasible layout")
        /\ c[s].header = StatusInternalServerError

(* ------------------------------- C7 ------------------------------------ *)

\* C7: the Provider and Region fields of the RequestWrapper that was bound
\* equal the URL path parameters, whatever the body contains.
C7_PathFieldsKept ==
    \A s \in Slots :
        (Business(s) /\ c[s].req # Nil) =>
            /\ c[s].req.Provider = c[s].Params.provider
            /\ c[s].req.Region = c[s].Params.region

(* ------------------------------- C8 ------------------------------------ *)

Rank(stage) ==
    CASE stage = "JWTAuth" -> 1
      [] stage = "ValidatePathParam" -> 2
      [] stage = "ValidateRegionData" -> 3
      [] stage = "BindJSON" -> 4
      [] stage = "RecommendCluster" -> 5
      [] OTHER -> 0

\* C8: the stages of a request run in the order auth, provider check, region
\* check, bind, dispatch, none twice and none after a later one; a stage before
\* dispatch that fails is the last stage to run, and the request is then
\* answered 400 or 401 without an engine call.
C8_StagesAdvance ==
    \A s \in Slots :
        c[s].pc # "idle" =>
            LET tr == c[s].trace IN
            /\ \A i, j \in 1..Len(tr) :
                 (i < j /\ Rank(tr[i].stage) > 0 /\ Rank(tr[j].stage) > 0) =>
                     Rank(tr[i].stage) < Rank(tr[j].stage)
            /\ \A i \in 1..Len(tr) :
                 (Rank(tr[i].stage) \in 1..4 /\ ~tr[i].ok) =>
                     /\ i = Len(tr)
                     /\ Responded(s)
                     /\ c[s].header \in {StatusBadRequest, StatusUnauthorized}
                     /\ c[s].calls = <<>>

C8_Witness ==
    \E s \in Slots :
        /\ Business(s) /\ Responded(s) /\ Len(c[s].trace) = 4
        /\ c[s].trace[1] = [stage |-> "JWTAuth", ok |-> TRUE]
        /\ c[s].trace[3] = [stage |-> "ValidatePathParam", ok |-> TRUE]
        /\ c[s].trace[4] = [stage |-> "ValidateRegionData", ok |-> FALSE]

(* ------------------------------- C9 ------------------------------------ *)

Rejects(s, h) ==
    CASE h = "cors" -> c[s].origin # "" /\ ~validateOrigin(getCorsConfig, c[s].origin)
      [] h = "JWTAuth" -> c[s].cred # "valid"
      [] h = "ValidatePathParam" -> ProviderUnknown(s)
      [] h = "ValidateRegionData" -> RegionRejected(s)
      [] h = "recommendClusterSetup" -> BindFails(s)
      [] OTHER -> FALSE

Failing(s) == {i \in 1..Len(c[s].handlers) : Rejects(s, c[s].handlers[i])}
FirstFailing(s) == CHOOSE i \in Failing(s) : \A j \in Failing(s) : i <= j

StageOf(h) == IF h = "recommendClusterSetup" THEN "BindJSON" ELSE h
StatusOf(h) == IF h = "JWTAuth" THEN StatusUnauthorized ELSE StatusBadRequest

\* C9: every answered request has exactly one response body; when one or more
\* guards of its chain would reject it, the response is that of the first such
\* guard in chain order: that guard is the only stage that failed and the last
\* that ran, and the status is its status.
C9_FirstFailureWins ==
    \A s \in Slots :
        Responded(s) =>
            /\ Len(c[s].out) = 1
            /\ Failing(s) # {} =>
                 LET h == c[s].handlers[FirstFailing(s)] IN
                 /\ Last(s) = [stage |-> StageOf(h), ok |-> FALSE]
                 /\ \A i \in 1..(Len(c[s].trace) - 1) : c[s].trace[i].ok
                 /\ c[s].header = StatusOf(h)
                 /\ h = "recommendClusterSetup" =>
                      c[s].out[1].cause = IF c[s].body.syntax THEN FieldError
                                          ELSE DecodeError
            /\ Failing(s) = {} => \A i \in 1..Len(c[s].trace) :
                 c[s].trace[i].ok \/ c[s].trace[i].stage = "RecommendCluster"

C9_Witness ==
    \E s \in Slots :
        /\ Business(s) /\ Responded(s)
        /\ ProviderUnknown(s) /\ RegionRejected(s) /\ BindFails(s)
        /\ Cardinality(Failing(s)) = 3
        /\ Last(s).stage = "ValidatePathParam"
        /\ Len(c[s].out) = 1

(* ------------------------------- C10 ----------------------------------- *)

ClaimedOrder ==
    <<"cors">> \o (IF AuthEnabled THEN <<"JWTAuth">> ELSE <<>>)
    \o <<"ValidatePathParam", "ValidateRegionData", "BindJSON", "RecommendCluster">>

\* C10: for a request to the business route the stages run in the order CORS,
\* auth (when EnableAuth was called, before or after ConfigureRoutes), provider
\* validation, region validation, binding, engine.
C10_CorsThenAuth ==
    \A s \in Slots :
        Business(s) =>
            \A i \in 1..Len(c[s].trace) : c[s].trace[i].stage = ClaimedOrder[i]

(* ------------------------------- C11 ----------------------------------- *)

\* C11: a region check is performed only after the provider validator has
\* accepted the provider of the same request: never for a rejected provider,
\* never before the provider was checked.
C11_RegionAfterProvider ==
    \A s \in Slots :
        Business(s) =>
            \A i \in 1..Len(c[s].trace) :
                c[s].trace[i].stage = "ValidateRegionData" =>
                    /\ ~ProviderUnknown(s)
                    /\ \E j \in 1..(i - 1) :
                         c[s].trace[j] = [stage |-> "ValidatePathParam", ok |-> TRUE]

C11_Witness ==
    \E s \in Slots :
        /\ Business(s)
        /\ Len(c[s].trace) >= 2
        /\ Last(s) = [stage |-> "ValidateRegionData", ok |-> TRUE]
        /\ c[s].trace[Len(c[s].trace) - 1] = [stage |-> "ValidatePathParam", ok |-> TRUE]

(* ------------------------------- C12 ----------------------------------- *)

\* the request of a context, as it was received
Restart(ctx) ==
    [ctx EXCEPT !.pc = "running", !.index = 1, !.aborted = FALSE, !.header = 0,
                !.out = <<>>, !.trace = <<>>, !.req = Nil, !.calls = <<>>,
                !.ret = Nil, !.panicked = FALSE]

\* what the engine returned to the request, if it was called
OutcomeOf(ctx) ==
    IF ctx.ret = Nil THEN "result"
    ELSE IF ctx.ret.err # Nil THEN ctx.ret.err.Error
    ELSE IF ctx.ret.response = Nil THEN "nil"
    ELSE "result"

NotAuth(entry) == entry.stage # "JWTAuth"

\* the response of a request and the stages other than auth that ran for it
Observed(ctx) ==
    [header |-> ctx.header, out |-> ctx.out,
     stages |-> SelectSeq(ctx.trace, NotAuth), calls |-> ctx.calls]

\* the same request, with credential cred, on a router configured with the
\* engine-level middlewares engineHandlers
OnRouter(ctx, engineHandlers, cred) ==
    LET routes == Configure(engineHandlers, env).trees
        route == CHOOSE r \in routes : r.method = ctx.method
    IN [Restart(ctx) EXCEPT !.handlers = route.handlers, !.cred = cred]

\* C12: a request served with authentication disabled gets the response, and
\* runs the validator, binder and engine stages, that the same request with a
\* valid credential gets with authentication enabled (before or after
\* ConfigureRoutes); and a request with a valid credential served with
\* authentication enabled gets what it gets on a router without EnableAuth.
C12_AuthOnlyAddsAuth ==
    \A s \in Slots :
        Responded(s) =>
            /\ ~AuthEnabled =>
                 \A engineHandlers \in {<<>>, <<"JWTAuth">>} :
                     Observed(c[s]) =
                         Observed(RunChain(OnRouter(c[s], engineHandlers, "valid"),
                                           OutcomeOf(c[s])))
            /\ (AuthEnabled /\ c[s].cred = "valid") =>
                 Observed(c[s]) =
                     Observed(RunChain(OnRouter(c[s], <<>>, "valid"), OutcomeOf(c[s])))

C12_Witness ==
    \E s \in Slots :
        /\ Business(s) /\ Responded(s)
        /\ AuthEnabled /\ InChain(s, "JWTAuth") /\ c[s].cred = "valid"
        /\ c[s].header = StatusOK
        /\ Len(c[s].trace) = Len(Observed(c[s]).stages) + 1

(* ------------------------------- C13 ----------------------------------- *)

\* C13: RecommendCluster is called at most once for a request, only after the
\* provider validator, the region validator and the binder accepted it, and
\* not again after it returned an error.
C13_EngineOnceAfterGuards ==
    \A s \in Slots :
        Business(s) =>
            /\ Len(c[s].calls) <= 1
            /\ Cardinality({i \in 1..Len(c[s].trace) :
                              c[s].trace[i].stage = "RecommendCluster"}) = Len(c[s].calls)
            /\ c[s].calls # <<>> =>
                 /\ ~ProviderUnknown(s) /\ ~RegionRejected(s) /\ ~BindFails(s)
                 /\ \A g \in {"ValidatePathParam", "ValidateRegionData", "BindJSON"} :
                      \E i \in 1..(Len(c[s].trace) - 1) :
                          c[s].trace[i] = [stage |-> g, ok |-> TRUE]
                 /\ Last(s).stage = "RecommendCluster"

C13_Witness ==
    \E s \in Slots :
        /\ Business(s) /\ Responded(s)
        /\ Len(c[s].calls) = 1
        /\ c[s].ret.err # Nil
        /\ Last(s) = [stage |-> "RecommendCluster", ok |-> FALSE]

(* ------------------------------- C15 ----------------------------------- *)

\* C15: the engine is called with the provider and region of the URL path,
\* the ones the validators checked, and the workload decoded from the body,
\* also when the body has Provider and Region keys of its own.
C15_EngineGetsPathParams ==
    \A s \in Slots :
        Business(s) =>
            \A i \in 1..Len(c[s].calls) :
                /\ c[s].calls[i] =
                     <<c[s].Params.provider, c[s].Params.region, c[s].body.W>>
                /\ c[s].calls[i][1] \in KnownProviders
                /\ c[s].calls[i][2] \in RegionsOf(c[s].calls[i][1])

C15_Witness ==
    \E s \in Slots :
        /\ Business(s) /\ Responded(s)
        /\ c[s].body.Provider = "google" /\ c[s].body.Region = "europe-west1"
        /\ c[s].calls = <<<<"amazon", "eu-west-1", "workload">>>>

(* ------------------------------- C17 ----------------------------------- *)

ClusterPath(base) == <<base, "/api/v1", "/recommender", "/:provider/:region/cluster/">>

HasValidators(route) ==
    \E i \in 1..Len(route.handlers) : route.handlers[i] \in Validators

\* C17: ConfigureRoutes registers exactly two routes, GET {basePath}/status
\* and POST {basePath}/api/v1/recommender/:provider/:region/cluster/, where
\* basePath is "/" when TELESCOPES_BASEPATH is unset or empty and its value
\* otherwise; the provider and region validators are on the chain of the
\* second route only, provider first.
C17_RoutesUnderBasePath ==
    trees # {} =>
        LET base == IF env = "" THEN "/" ELSE env IN
        /\ Cardinality(trees) = 2
        /\ \A route \in trees :
             \/ /\ route.method = "GET"
                /\ route.path = <<base, "/status">>
                /\ ~HasValidators(route)
                /\ route.handlers[Len(route.handlers)] = "signalStatus"
             \/ /\ route.method = "POST"
                /\ route.path = ClusterPath(base)
                /\ Len(route.handlers) >= 3
                /\ SubSeq(route.handlers, Len(route.handlers) - 2, Len(route.handlers))
                     = <<"ValidatePathParam", "ValidateRegionData",
                         "recommendClusterSetup">>
        /\ \E route \in trees : route.method = "GET"
        /\ \E route \in trees : route.method = "POST"

C17_Witness ==
    /\ env = "/telescopes"
    /\ \E route \in trees :
         route.method = "POST" /\ route.path = ClusterPath("/telescopes")
    /\ \E s \in Slots : Liveness(s) /\ c[s].path = <<"/telescopes", "/status">>

(* ------------------------------- C16 ----------------------------------- *)

\* C16: every request that was received is eventually answered, and an
\* answered request has exactly one response, with status 200, 400, 401 or
\* 500; the handlers of its chain being run and the collaborators returning,
\* no request stays in a stage before the response.
C16_EventuallyResponded ==
    /\ [](\A s \in Slots :
            Responded(s) =>
                /\ Len(c[s].out) = 1
                /\ c[s].header \in {StatusOK, StatusBadRequest, StatusUnauthorized,
                                    StatusInternalServerError})
    /\ \A s \in Slots : (c[s].pc = "running") ~> Responded(s)

C16_Witness ==
    \E s \in Slots :
        /\ Business(s) /\ Responded(s)
        /\ c[s].header = StatusOK
        /\ Len(c[s].out) = 1
        /\ Last(s) = [stage |-> "RecommendCluster", ok |-> TRUE]

(* ------------------------------- C18 ----------------------------------- *)

\* C18: whatever RecommendCluster returns, a nil result with a nil error
\* included, a dispatched request ends with exactly one response, of status
\* 200 or 500.
C18_DispatchedIsAnswered ==
    \A s \in Slots :
        (Business(s) /\ Responded(s) /\ c[s].calls # <<>>) =>
            /\ Len(c[s].out) = 1
            /\ c[s].header \in {StatusOK, StatusInternalServerError}

(* ------------------------------- C14 ----------------------------------- *)

Running(s) == c[s].pc = "running"

\* C14: whatever the interleaving of the handlers of the requests in flight,
\* an answered request is in the state its own chain, run alone on its own
\* path parameters, body and credential with the engine's return to its own
\* call, ends in; and a step of one request changes neither the router nor
\* the context of another request.
C14_RequestsIndependent ==
    /\ [](\A s \in Slots :
            Responded(s) => c[s] = RunChain(Restart(c[s]), OutcomeOf(c[s])))
    /\ [][\A s \in Slots :
            (Running(s) /\ c'[s] # c[s]) =>
                /\ UNCHANGED <<env, Handlers, trees>>
                /\ \A o \in Slots \ {s} : c'[o] = c[o]]_vars

C14_Witness ==
    \E s, o \in Slots :
        /\ s # o
        /\ Business(s) /\ Business(o) /\ Responded(s) /\ Responded(o)
        /\ Restart(c[s]) = Restart(c[o])
        /\ c[s].header = StatusOK /\ c[o].header = StatusOK
        /\ Len(c[s].out) = 1 /\ Len(c[o].out) = 1
        /\ Len(c[s].calls) = 1 /\ Len(c[o].calls) = 1
====
